---------------------------- MODULE Spec2Model ----------------------------
(***************************************************************************)
(* Model of src/app.py, the Solar-X wax-tracker simulation.  One script    *)
(* run of the Streamlit page is one tick: it reads the telemetry of        *)
(* sim_time, adds the energy of the tick, appends a row to the live        *)
(* buffer, advances sim_time by MINUTES_PER_TICK and, when the advanced    *)
(* time is 00:00, archives the day into history_db.                        *)
(*                                                                         *)
(* Number representation (TLC has 32-bit integers and no reals):           *)
(*   - a datetime is [day, min]: day = days since 2022-01-01, min = minute *)
(*     of the day; seconds are never read by the program;                  *)
(*   - weather_factor is in thousandths; intensities, temperatures and     *)
(*     angles inside the physics are in millionths; the cosine is in       *)
(*     ten-thousandths, so a modelled power can differ from the float      *)
(*     result by one watt where the float value sits on an integer;        *)
(*   - data.ambient and data.wax are in tenths (round(x, 1));              *)
(*   - energy_today is in watt-minutes (60 watt-minutes = 1 Wh), so        *)
(*     power * (MINUTES_PER_TICK / 60) is exact.                           *)
(* np.random is modelled as a generator with a small state (rng): the seed *)
(* is chosen at start-up, every draw reads the state and advances it.      *)
(***************************************************************************)
EXTENDS Integers, Sequences, FiniteSets, TLC

VARIABLES
    sim_time,            \* st.session_state.sim_time
    energy_today,        \* st.session_state.energy_today (watt-minutes)
    live_power,          \* st.session_state.live_power, rows [Time, Watts]
    history_db,          \* st.session_state.history_db, rows of daily records
    data,                \* the dict returned by the last get_live_telemetry, <<>> before the first
    frame,               \* the locals of the last get_live_telemetry call, <<>> before the first
    rng,                 \* state of the np.random generator
    boot,                \* the two clock readings of the initialisation (never changes)
    minutes_per_tick,    \* the value of MINUTES_PER_TICK the script is run with (never changes)
    max_temp_seen_today  \* observer only: highest data.ambient of the ticks since the last rollover

vars == <<sim_time, energy_today, live_power, history_db, data, frame, rng,
          boot, minutes_per_tick, max_temp_seen_today>>

-----------------------------------------------------------------------------
(* Program constants *)

MINUTES_PER_TICK == 30

MAX_ROTATION == 60

PANEL_CAPACITY == 250

EPOCH_YEAR == 2022

SUNRISE_MIN == 360

SUNSET_MIN == 1080

NIGHT_TEMP10 == 220

DAY_MINUTES == 1440

(* Bounds of the model *)

NumSeeds == 6

MaxTicks == 135

\* Days (since 2022-01-01) on which the session may start: 2022-01-02,
\* 2022-01-31, 2022-02-28, 2022-04-30, 2022-09-30 and 2022-12-31.
StartDays == {1, 30, 58, 119, 272, 364}

-----------------------------------------------------------------------------
(* datetime *)

IsLeap(y) == (y % 4 = 0 /\ y % 100 # 0) \/ y % 400 = 0

DaysInYear(y) == IF IsLeap(y) THEN 366 ELSE 365

DaysInMonth(y, m) ==
    IF m = 2 THEN (IF IsLeap(y) THEN 29 ELSE 28)
    ELSE IF m \in {4, 6, 9, 11} THEN 30 ELSE 31

RECURSIVE YearFrom(_, _)
\* <<year, day of that year (0-based)>> of day d counted from 1 January of y
YearFrom(d, y) ==
    IF d < DaysInYear(y) THEN <<y, d>> ELSE YearFrom(d - DaysInYear(y), y + 1)

RECURSIVE MonthFrom(_, _, _)
\* <<month, day of month>> of the 0-based day d of year y, counted from month m
MonthFrom(d, y, m) ==
    IF d < DaysInMonth(y, m) THEN <<m, d + 1>>
    ELSE MonthFrom(d - DaysInMonth(y, m), y, m + 1)

\* datetime(2022, 1, 1) + timedelta(days=d), as <<year, month, day>>
YMD(d) ==
    LET yd == YearFrom(d, EPOCH_YEAR)
        md == MonthFrom(yd[2], yd[1], 1)
    IN  <<yd[1], md[1], md[2]>>

YearOf(d) == YMD(d)[1]

MonthOf(d) == YMD(d)[2]

\* strftime("%Y-%m-%d"): the zero-padded fields, compared left to right
StrfDate(d) == YMD(d)

\* strftime("%b")
StrfMonth(d) ==
    <<"Jan", "Feb", "Mar", "Apr", "May", "Jun",
      "Jul", "Aug", "Sep", "Oct", "Nov", "Dec">>[MonthOf(d)]

\* strftime("%H:%M")
StrfTime(t) == <<t.min \div 60, t.min % 60>>

\* t + timedelta(minutes=k), k >= 0
AddMinutes(t, k) ==
    [day |-> t.day + (t.min + k) \div DAY_MINUTES,
     min |-> (t.min + k) % DAY_MINUTES]

\* t - timedelta(days=1)
MinusOneDay(t) == [day |-> t.day - 1, min |-> t.min]

\* order of two "%Y-%m-%d" strings
DateLess(a, b) ==
    \/ a[1] < b[1]
    \/ a[1] = b[1] /\ a[2] < b[2]
    \/ a[1] = b[1] /\ a[2] = b[2] /\ a[3] < b[3]

-----------------------------------------------------------------------------
(* np.random *)

RngMod == 1024

\* the generator's next state (a full-period congruential step)
RngNext(s) == (5 * s + 3) % RngMod

\* np.random.randint(lo, hi): an integer in [lo, hi)
randint(lo, hi, s) == lo + ((hi - lo) * s) \div RngMod

\* np.random.uniform(lo, hi), lo and hi in thousandths: a value in [lo, hi)
uniform(lo, hi, s) == lo + ((hi - lo) * s) \div RngMod

\* np.random.random() in thousandths: a value in [0, 1)
random(s) == (1000 * s) \div RngMod

-----------------------------------------------------------------------------
(* get_climate_profile *)

\* The profile drawn for a date with the generator in state s, and the
\* generator's state after the draws (each draw reads the state and steps it).
get_climate_profile(date_obj, s) ==
    LET month == MonthOf(date_obj.day)
        s1 == RngNext(s)
        s2 == RngNext(s1)
        s3 == RngNext(s2)
    IN  IF 4 <= month /\ month <= 6
        THEN [max_temp |-> randint(38, 45, s),
              weather_factor |-> uniform(900, 1000, s1),
              condition |-> "Clear", rng |-> s2]
        ELSE IF 10 <= month /\ month <= 12
        THEN IF random(s1) < 300
             THEN [max_temp |-> randint(25, 30, s),
                   weather_factor |-> uniform(100, 400, s2),
                   condition |-> "Rain/Overcast", rng |-> s3]
             ELSE [max_temp |-> randint(25, 30, s),
                   weather_factor |-> uniform(600, 800, s2),
                   condition |-> "Cloudy", rng |-> s3]
        ELSE IF 1 <= month /\ month <= 2
        THEN [max_temp |-> randint(24, 28, s),
              weather_factor |-> uniform(800, 950, s1),
              condition |-> "Sunny", rng |-> s2]
        ELSE [max_temp |-> randint(32, 36, s),
              weather_factor |-> uniform(700, 1000, s1),
              condition |-> "Partly Cloudy", rng |-> s2]

-----------------------------------------------------------------------------
(* get_live_telemetry *)

\* np.sin(((hour - 6) / 12) * np.pi), cut to millionths, at the half hours
\* 06:00, 06:30, ..., 18:00
SinTable ==
    <<0, 130526, 258819, 382683, 499999, 608761, 707106, 793353, 866025,
      923879, 965925, 991444, 1000000, 991444, 965925, 923879, 866025,
      793353, 707106, 608761, 499999, 382683, 258819, 130526, 0>>

\* base_intensity at a half hour of the day; past 18:00 and before 06:00 the
\* sine continues with sin(x + pi) = -sin(x)
BaseIntensity(minute) ==
    LET k == ((minute - SUNRISE_MIN) \div 30) % 48
    IN  IF k <= 24 THEN SinTable[k + 1] ELSE -SinTable[k - 24 + 1]

\* mutant: hour is current_time.hour alone, so 18:30 still counts as day
IsDay_HourOnly(minute) == 6 <= minute \div 60 /\ minute \div 60 <= 18

\* is_day = 6 <= hour <= 18, hour = current_time.hour + current_time.minute/60
IsDay(minute) == SUNRISE_MIN <= minute /\ minute <= SUNSET_MIN

Max(a, b) == IF a >= b THEN a ELSE b

Min(a, b) == IF a <= b THEN a ELSE b

Abs(a) == IF a >= 0 THEN a ELSE -a

\* mutant: only the lower limit is applied
Clip_LowerOnly(x, lo, hi) == Max(lo, x)

\* np.clip
Clip(x, lo, hi) == Max(lo, Min(x, hi))

\* cos of an angle of 0..90 degrees given in millionths of a degree, in
\* ten-thousandths: the series 1 - x^2/2! + x^4/4! - ... to x^10, nested
CosQuadrant(deg6) ==
    LET x4 == ((deg6 \div 10000) * 17453) \div 10000
        x2 == (x4 * x4) \div 10000
        t5 == 10000 - x2 \div 90
        t4 == 10000 - (x2 * t5) \div 560000
        t3 == 10000 - (x2 * t4) \div 300000
        t2 == 10000 - (x2 * t3) \div 120000
    IN  10000 - (x2 * t2) \div 20000

\* math.cos(math.radians(error)) for 0 <= error <= 180 degrees
Cos(deg6) ==
    IF deg6 <= 90000000 THEN CosQuadrant(deg6)
    ELSE -CosQuadrant(180000000 - deg6)

\* round(x, 1) of a non-negative x in millionths, in tenths
Round1(x6) == (x6 + 50000) \div 100000

\* mutant: the ramp starts at 25 degrees of wax instead of 35
TargetAngle_From25(wax6) ==
    -MAX_ROTATION * 1000000 + (wax6 - 25000000) * ((MAX_ROTATION * 2) \div 40)

\* -MAX_ROTATION + ((wax - 35)/40 * (MAX_ROTATION*2)), in millionths
TargetAngle(wax6) ==
    -MAX_ROTATION * 1000000 + (wax6 - 35000000) * ((MAX_ROTATION * 2) \div 40)

\* The reading of current_time with the generator in state s: the returned
\* dict (data), the locals of the call (frame; a local the call never binds
\* is the empty set) and the generator's state after the call.
get_live_telemetry(current_time, s) ==
    LET prof == get_climate_profile(current_time, s)
        peak_temp_today == prof.max_temp
        weather_factor_today == prof.weather_factor
        minute == current_time.min
        is_day == IsDay(minute)
    IN  IF is_day
        THEN LET sun_angle == (minute - 720) * 250000
                 base_intensity == BaseIntensity(minute)
                 real_intensity == (base_intensity * weather_factor_today) \div 1000
                 irradiance == Max(0, (base_intensity * weather_factor_today) \div 1000000)
                 ambient == 25000000 + real_intensity * (peak_temp_today - 25)
                 wax == ambient + real_intensity * 40
                 target_angle == TargetAngle(wax)
                 panel_angle == Clip(target_angle, -MAX_ROTATION * 1000000,
                                     MAX_ROTATION * 1000000)
                 error == Abs(sun_angle - panel_angle)
                 efficiency == Cos(error)
                 power == (irradiance * (PANEL_CAPACITY \div 10) * Max(0, efficiency)) \div 1000000
             IN  [data |-> [str_time |-> StrfTime(current_time),
                            power |-> power,
                            ambient |-> Round1(ambient),
                            wax |-> Round1(wax),
                            is_day |-> TRUE,
                            condition |-> prof.condition],
                  frame |-> [peak_temp_today |-> peak_temp_today,
                             weather_factor_today |-> weather_factor_today,
                             irradiance |-> {irradiance},
                             ambient |-> ambient,
                             wax |-> wax,
                             panel_angle |-> {panel_angle}],
                  rng |-> prof.rng]
        ELSE [data |-> [str_time |-> StrfTime(current_time),
                        power |-> 0,
                        ambient |-> NIGHT_TEMP10,
                        wax |-> NIGHT_TEMP10,
                        is_day |-> FALSE,
                        condition |-> prof.condition],
              frame |-> [peak_temp_today |-> peak_temp_today,
                         weather_factor_today |-> weather_factor_today,
                         irradiance |-> {},
                         ambient |-> NIGHT_TEMP10 * 100000,
                         wax |-> NIGHT_TEMP10 * 100000,
                         panel_angle |-> {}],
              rng |-> prof.rng]

-----------------------------------------------------------------------------
(* Session state initialisation *)

\* mutant: the row of the old structure, with no Year and no Month
HistoryRow_OldStructure(current_iter_date, prof) ==
    [Date |-> StrfDate(current_iter_date),
     Condition |-> prof.condition,
     Peak_Temp_C |-> prof.max_temp,
     Yield_Wh |-> (PANEL_CAPACITY * 6 * prof.weather_factor) \div 1000]

\* One pass of the loop body for the day current_iter_date.
HistoryRow(current_iter_date, prof) ==
    LET ideal_yield == PANEL_CAPACITY * 6
        actual_yield == (ideal_yield * prof.weather_factor) \div 1000
    IN  [Date |-> StrfDate(current_iter_date),
         Year |-> YearOf(current_iter_date),
         Month |-> StrfMonth(current_iter_date),
         Condition |-> prof.condition,
         Peak_Temp_C |-> prof.max_temp,
         Yield_Wh |-> actual_yield]

RECURSIVE GenHistory(_, _, _)
\* The loop over every day from current_iter_date to end_date, in order: the
\* records appended to history_data and the generator's state after the
\* loop.  The range is split in halves only to keep the evaluation shallow;
\* the days are visited, and the generator stepped, in the loop's order.
GenHistory(current_iter_date, end_date, s) ==
    IF current_iter_date > end_date
    THEN [history_data |-> <<>>, rng |-> s]
    ELSE IF current_iter_date = end_date
    THEN LET prof == get_climate_profile([day |-> current_iter_date, min |-> 0], s)
         IN  [history_data |-> <<HistoryRow(current_iter_date, prof)>>,
              rng |-> prof.rng]
    ELSE LET mid == (current_iter_date + end_date) \div 2
             first == GenHistory(current_iter_date, mid, s)
             rest == GenHistory(mid + 1, end_date, first.rng)
         IN  [history_data |-> first.history_data \o rest.history_data,
              rng |-> rest.rng]

\* The state after the initialisation block of a script whose configuration
\* sets MINUTES_PER_TICK to k.  datetime.now() is read twice, for sim_time
\* (now1) and for end_date (now2); midnight may pass in between.
InitWith(k) ==
    \E now1 \in StartDays, late \in {0, 1}, seed \in 0 .. NumSeeds - 1 :
        LET now2 == now1 + late
            gen == GenHistory(0, now2 - 1, seed)
        IN  /\ sim_time = [day |-> now1, min |-> 6 * 60]
            /\ energy_today = 0
            /\ live_power = <<>>
            /\ history_db = gen.history_data
            /\ rng = gen.rng
            /\ data = <<>>
            /\ frame = <<>>
            /\ boot = [now1 |-> now1, now2 |-> now2]
            /\ minutes_per_tick = k
            /\ max_temp_seen_today = 0

\* the script as it is: MINUTES_PER_TICK = 30
Init == InitWith(MINUTES_PER_TICK)

-----------------------------------------------------------------------------
(* Main loop *)

\* number of ticks run since the initialisation
Elapsed ==
    ((sim_time.day - boot.now1) * DAY_MINUTES + sim_time.min - 6 * 60)
        \div minutes_per_tick

\* mutant: the test reads the minute only, so every full hour is a new day
IsMidnight_MinuteOnly(t) == t.min % 60 = 0

\* mutant: the test reads the hour only, so 00:30 is a new day too
IsMidnight_HourOnly(t) == t.min \div 60 = 0

\* st.session_state.sim_time.hour == 0 and st.session_state.sim_time.minute == 0
IsMidnight(t) == t.min \div 60 = 0 /\ t.min % 60 = 0

\* mutant: the condition is read under a key the reading does not have and
\* falls back to a default label
TodayRec_DefaultCondition(t, reading, energy) ==
    [Date |-> StrfDate(MinusOneDay(t).day),
     Year |-> YearOf(t.day),
     Month |-> StrfMonth(t.day),
     Condition |-> "Unknown",
     Peak_Temp_C |-> reading.ambient \div 10,
     Yield_Wh |-> energy \div 60]

\* the record of the New Day Logic, built after sim_time has been advanced
TodayRec(t, reading, energy) ==
    [Date |-> StrfDate(MinusOneDay(t).day),
     Year |-> YearOf(t.day),
     Month |-> StrfMonth(t.day),
     Condition |-> reading.condition,
     Peak_Temp_C |-> reading.ambient \div 10,
     Yield_Wh |-> energy \div 60]

\* mutant: the tick is taken for a whole hour
StepWh_PerHour(power) == power * 60

\* step_wh = data['power'] * (MINUTES_PER_TICK / 60), in watt-minutes
StepWh(power) == power * minutes_per_tick

\* mutant: the new row is put in front of the frame
ConcatRow_Prepend(df, row) == <<row>> \o df

\* pd.concat([df, row], ignore_index=True)
ConcatRow(df, row) == Append(df, row)

\* df.columns of a frame built from a list of row dicts: the keys of its
\* rows, none for pd.DataFrame([])
Columns(df) == UNION {DOMAIN df[i] : i \in 1 .. Len(df)}

\* the memory cleaner's test ('history_db' is in the session state from the
\* initialisation on): 'Year' not in st.session_state.history_db.columns
NeedsUpgrade == "Year" \notin Columns(history_db)

\* st.session_state.clear() and st.rerun(): the next run starts with the
\* initialisation block again, the generator going on from where it is
MemoryCleaner ==
    LET gen == GenHistory(0, boot.now2 - 1, rng)
    IN  /\ sim_time' = [day |-> boot.now1, min |-> 6 * 60]
        /\ energy_today' = 0
        /\ live_power' = <<>>
        /\ history_db' = gen.history_data
        /\ rng' = gen.rng
        /\ data' = <<>>
        /\ frame' = <<>>
        /\ max_temp_seen_today' = 0

\* The main loop and the New Day Logic.
MainLoop ==
    LET tel == get_live_telemetry(sim_time, rng)
        step_wh == StepWh(tel.data.power)
        energy == energy_today + step_wh
        new_row == [Time |-> tel.data.str_time, Watts |-> tel.data.power]
        time == AddMinutes(sim_time, minutes_per_tick)
    IN  /\ data' = tel.data
        /\ frame' = tel.frame
        /\ rng' = tel.rng
        /\ sim_time' = time
        /\ IF IsMidnight(time)
           THEN /\ history_db' = ConcatRow(history_db, TodayRec(time, tel.data, energy))
                /\ energy_today' = 0
                /\ live_power' = <<>>
                /\ max_temp_seen_today' = 0
           ELSE /\ history_db' = history_db
                /\ energy_today' = energy
                /\ live_power' = ConcatRow(live_power, new_row)
                /\ max_temp_seen_today' = Max(max_temp_seen_today, tel.data.ambient)

\* One script run: the memory cleaner, then (the session being initialised)
\* the main loop and the New Day Logic.
Tick ==
    /\ Elapsed < MaxTicks
    /\ IF NeedsUpgrade THEN MemoryCleaner ELSE MainLoop
    /\ UNCHANGED <<boot, minutes_per_tick>>

Next == Tick

Spec == Init /\ [][Next]_vars

\* The script with the configuration line changed: tick sizes that are whole
\* half hours (the times of day stay on the half hours of SinTable).  30 is
\* the shipped value; 150 does not divide a day; 240 divides a day, but from
\* 06:00 the clock then goes 10:00, 14:00, 18:00, 22:00, 02:00, 06:00, ...
TickSizes == {30, 150, 240}

InitConfig == \E k \in TickSizes : InitWith(k)

SpecConfig == InitConfig /\ [][Next]_vars

-----------------------------------------------------------------------------
(* get_live_telemetry on its own: every time of day, a day of every season *)
(* and every state of the generator.                                       *)

\* 2022-01-16, 2022-03-16, 2022-05-16 and 2022-10-16
SampleDays == {15, 74, 135, 288}

InitTelemetry ==
    \E d \in SampleDays, k \in 0 .. (DAY_MINUTES \div MINUTES_PER_TICK) - 1,
       s \in 0 .. RngMod - 1 :
        /\ sim_time = [day |-> d, min |-> k * MINUTES_PER_TICK]
        /\ rng = s
        /\ energy_today = 0
        /\ live_power = <<>>
        /\ history_db = <<>>
        /\ data = <<>>
        /\ frame = <<>>
        /\ boot = [now1 |-> d, now2 |-> d]
        /\ minutes_per_tick = MINUTES_PER_TICK
        /\ max_temp_seen_today = 0

\* data = get_live_telemetry(st.session_state.sim_time), once
Sample ==
    /\ data = <<>>
    /\ LET tel == get_live_telemetry(sim_time, rng)
       IN  /\ data' = tel.data
           /\ frame' = tel.frame
           /\ rng' = tel.rng
    /\ UNCHANGED <<sim_time, energy_today, live_power, history_db, boot, minutes_per_tick,
                   max_temp_seen_today>>

SpecTelemetry == InitTelemetry /\ [][Sample]_vars

-----------------------------------------------------------------------------
(* Helpers of the properties *)

Last(seq) == seq[Len(seq)]

RECURSIVE SumWatts(_)
\* the sum of the Watts column of a live buffer
SumWatts(rows) ==
    IF rows = <<>> THEN 0 ELSE rows[1].Watts + SumWatts(Tail(rows))

\* the tick just taken advanced sim_time to 00:00 (read in the next state)
AtMidnight == sim_time.min = 0

\* the timestamp of the tick being taken lies outside 06:00 .. 18:00
NightTick == sim_time.min < 6 * 60 \/ sim_time.min > 18 * 60

-----------------------------------------------------------------------------
(* C1: energy_today is set back to 0 by a tick exactly when that tick      *)
(* advances sim_time to 00:00, and then a record carrying the energy        *)
(* accumulated up to and including that tick has been appended to           *)
(* history_db; on any other tick energy_today does not decrease and an      *)
(* accumulated value is never zeroed.                                       *)
C1_ResetOnlyAtRollover ==
    [][ /\ AtMidnight' =>
            /\ energy_today' = 0
            /\ Len(history_db') = Len(history_db) + 1
            /\ Last(history_db').Yield_Wh
                   = (energy_today + data'.power * MINUTES_PER_TICK) \div 60
        /\ ~AtMidnight' =>
            /\ energy_today' >= energy_today
            /\ energy_today' = energy_today + data'.power * MINUTES_PER_TICK
      ]_vars

\* a rollover has just archived a day that produced energy
C1_Witness ==
    /\ AtMidnight /\ Elapsed > 0
    /\ energy_today = 0
    /\ Last(history_db).Yield_Wh > 0

(* C2: the Yield_Wh of the record appended at a rollover is the truncated   *)
(* sum of power * MINUTES_PER_TICK / 60 over the rows of the live buffer    *)
(* plus the rollover tick itself; these rows are the consecutive ticks      *)
(* since the previous rollover (or since the initialisation), all stamped   *)
(* on the record's Date; between rollovers every tick enters the buffer     *)
(* and the running total exactly once.                                      *)
C2_YieldIsSumOfDayTicks ==
    [][ LET row == [Time |-> data'.str_time, Watts |-> data'.power]
            rows == Append(live_power, row)
            n == Len(rows)
            rec == Last(history_db')
        IN  /\ ~AtMidnight' =>
                /\ live_power' = rows
                /\ energy_today' = SumWatts(rows) * MINUTES_PER_TICK
            /\ AtMidnight' =>
                /\ rec.Yield_Wh = (SumWatts(rows) * MINUTES_PER_TICK) \div 60
                /\ rec.Date = StrfDate(sim_time.day)
                /\ n = (IF Elapsed' < 48 THEN Elapsed' ELSE 48)
                /\ \A i \in 1 .. n :
                       rows[i].Time
                           = StrfTime([day |-> sim_time.day,
                                       min |-> DAY_MINUTES
                                                 - (n - i + 1) * MINUTES_PER_TICK])
      ]_vars

\* a full day (48 ticks) that produced energy has just been archived
C2_Witness ==
    /\ AtMidnight /\ Elapsed >= 84
    /\ Last(history_db).Yield_Wh > 0
    /\ Last(history_db).Date = StrfDate(sim_time.day - 1)

(* C3: history_db grows by exactly one record on a tick that advances       *)
(* sim_time to 00:00 and is unchanged by any other tick; the records        *)
(* already in it keep their values and their order.                         *)
C3_HistoryAppendOnly ==
    [][ /\ Len(history_db') = Len(history_db) + (IF AtMidnight' THEN 1 ELSE 0)
        /\ SubSeq(history_db', 1, Len(history_db)) = history_db
      ]_vars

\* two live records follow the pre-generated ones, which are still in place
C3_Witness ==
    /\ Len(history_db) = boot.now2 + 2
    /\ Elapsed > 84
    /\ history_db[1].Date = <<2022, 1, 1>>

(* C4: with the 30-minute tick and the 06:00 start the rollovers are the    *)
(* ticks number 36, 84, 132, ...: after n ticks history_db holds            *)
(* (n + 12) \div 48 records more than at the initialisation, so any 96      *)
(* consecutive ticks add exactly 2 records.                                 *)
C4_RolloverEvery48Ticks ==
    /\ Len(history_db) = boot.now2 + (Elapsed + 12) \div 48
    /\ AtMidnight <=> (Elapsed >= 36 /\ (Elapsed - 36) % 48 = 0)

\* 96 ticks after the first rollover: two more records
C4_Witness ==
    /\ Elapsed = 36 + 96
    /\ Len(history_db) = boot.now2 + 3

(* C5: the Dates of history_db are strictly increasing in insertion order,  *)
(* across the seam between the pre-generated and the live records too.      *)
C5_DatesStrictlyIncreasing ==
    \A i \in 1 .. Len(history_db) - 1 :
        DateLess(history_db[i].Date, history_db[i + 1].Date)

(* C6: every tick of one simulated day computes its telemetry from the same *)
(* profile (peak temperature, sun factor, condition): between two ticks     *)
(* stamped on the same day the profile does not change.                     *)
C6_ProfileFixedWithinDay ==
    [][ (Elapsed > 0 /\ ~AtMidnight) =>
            /\ frame'.peak_temp_today = frame.peak_temp_today
            /\ frame'.weather_factor_today = frame.weather_factor_today
            /\ data'.condition = data.condition
      ]_vars

(* C7: the Peak_Temp_C of the record appended at a rollover is the highest  *)
(* ambient temperature of the ticks of the archived day, or the peak        *)
(* temperature of the profile in force.                                     *)
C7_PeakTempIsDayMaximum ==
    [][ AtMidnight' =>
            \/ Last(history_db').Peak_Temp_C
                   = Max(max_temp_seen_today, data'.ambient) \div 10
            \/ Last(history_db').Peak_Temp_C = frame'.peak_temp_today
      ]_vars

C9_RangesHold ==
    /\ data # <<>> =>
          /\ data.is_day =>
                /\ \A irr \in frame.irradiance : 0 <= irr /\ irr <= 1000
                /\ \A a \in frame.panel_angle :
                       /\ -MAX_ROTATION * 1000000 <= a
                       /\ a <= MAX_ROTATION * 1000000
                /\ frame.irradiance # {} /\ frame.panel_angle # {}
          /\ 0 <= data.power /\ data.power <= PANEL_CAPACITY
    /\ energy_today >= 0
    /\ \A i \in 1 .. Len(history_db) : history_db[i].Yield_Wh >= 0

\* a daylight reading with the panel driven to its upper stop and power out
C9_Witness ==
    /\ data # <<>> /\ data.is_day
    /\ frame.panel_angle = {MAX_ROTATION * 1000000}
    /\ data.power > 0
    /\ energy_today > 0

(* C10, as claimed: on a daylight tick, wax less than 10 degrees above      *)
(* ambient means the panel is parked at -MAX_ROTATION.                      *)
C10_DifferentialDeadband ==
    (data # <<>> /\ data.is_day /\ frame.wax - frame.ambient < 10000000)
        => frame.panel_angle = {-MAX_ROTATION * 1000000}

(* C10, amended: the deadband is on the wax temperature itself: on a        *)
(* daylight tick, wax at or below 35 degrees means the panel is parked at   *)
(* -MAX_ROTATION, however far below 35 it is.                               *)
C10_AbsoluteDeadband ==
    (data # <<>> /\ data.is_day /\ frame.wax <= 35000000)
        => frame.panel_angle = {-MAX_ROTATION * 1000000}

\* a sunlit reading with warm wax still under the threshold: parked
C10_Witness ==
    /\ data # <<>> /\ data.is_day
    /\ frame.wax > 30000000 /\ frame.wax <= 35000000
    /\ frame.panel_angle = {-MAX_ROTATION * 1000000}

(* C12: in every state reached from the initialisation by ticks and         *)
(* rollovers history_db has the Year column (and the Month column the       *)
(* pivot needs), so the memory cleaner never clears the session and the     *)
(* records archived so far stay.                                            *)
C12_YearColumnAlwaysThere ==
    /\ ~NeedsUpgrade
    /\ "Month" \in Columns(history_db)
    /\ \A i \in 1 .. Len(history_db) : "Year" \in DOMAIN history_db[i]
    /\ Len(history_db) >= boot.now2

\* two days archived on top of the pre-generated rows, the columns in place
C12_Witness ==
    /\ Len(history_db) = boot.now2 + 2
    /\ ~NeedsUpgrade
    /\ Last(history_db).Yield_Wh > 0

\* the Condition values in the session: of every record and of the reading
ConditionsInUse ==
    {history_db[i].Condition : i \in 1 .. Len(history_db)}
        \cup (IF data = <<>> THEN {} ELSE {data.condition})

(* C13, as claimed: every condition label of a reading or of a history      *)
(* record is one of Sunny, Cloudy, Rainy, Heatwave, Overcast, Clear.        *)
C13_LabelsOfTheSpec ==
    ConditionsInUse
        \subseteq {"Sunny", "Cloudy", "Rainy", "Heatwave", "Overcast", "Clear"}

(* C13, amended: every condition label of a reading or of a history record  *)
(* is one of Sunny, Cloudy, Clear, Rain/Overcast, Partly Cloudy.            *)
C13_LabelsOfTheCode ==
    ConditionsInUse
        \subseteq {"Sunny", "Cloudy", "Clear", "Rain/Overcast", "Partly Cloudy"}

\* a rollover has archived a day under a label that is not in the spec's set
C13_Witness ==
    /\ Len(history_db) > boot.now2
    /\ Last(history_db).Condition \in {"Rain/Overcast", "Partly Cloudy"}
    /\ data # <<>> /\ data.condition = Last(history_db).Condition

(* C15: in every record of history_db, pre-generated or appended at a       *)
(* rollover, Year is the year and Month the month of the record's own Date. *)
C15_YearMonthOfOwnDate ==
    \A i \in 1 .. Len(history_db) :
        LET rec == history_db[i]
        IN  /\ rec.Year = rec.Date[1]
            /\ rec.Month = <<"Jan", "Feb", "Mar", "Apr", "May", "Jun",
                             "Jul", "Aug", "Sep", "Oct", "Nov", "Dec">>[rec.Date[2]]

\* the ticks run since the last rollover (since the initialisation before
\* the first one), with the 30-minute tick and the 06:00 start
TicksSinceRollover == IF Elapsed < 36 THEN Elapsed ELSE (Elapsed - 36) % 48

(* C16: at the end of every tick the live buffer holds one (Time, Watts)    *)
(* row per tick run since the last rollover (or the initialisation), in     *)
(* tick order and ending with the row of the tick just run; it is empty     *)
(* right after a rollover, never holds more than 48 rows, and all its rows  *)
(* are stamped on one simulated day.                                        *)
C16_LiveBufferIsTodaysTicks ==
    LET n == Len(live_power)
    IN  /\ n = TicksSinceRollover
        /\ n <= 48
        /\ AtMidnight => live_power = <<>>
        /\ \A i \in 1 .. n :
               /\ sim_time.min - (n - i + 1) * MINUTES_PER_TICK >= 0
               /\ live_power[i].Time
                      = StrfTime([day |-> sim_time.day,
                                  min |-> sim_time.min - (n - i + 1) * MINUTES_PER_TICK])
        /\ n > 0 => Last(live_power) = [Time |-> data.str_time, Watts |-> data.power]

\* the fullest buffer of a whole day: the 47 ticks from 00:00 to 23:00
C16_Witness ==
    /\ Elapsed > 36
    /\ Len(live_power) = 47
    /\ live_power[1].Time = <<0, 0>>
    /\ SumWatts(live_power) > 0

\* from the 06:00 start, ticks of k minutes reach 00:00 on some day
LandsOnMidnight(k) ==
    \E n \in 1 .. DAY_MINUTES : (6 * 60 + n * k) % DAY_MINUTES = 0

(* C11: no tick runs under a tick duration that does not evenly divide 24   *)
(* hours, nor under one with which sim_time never lands on 00:00: such a    *)
(* configuration is rejected before the first tick.                         *)
C11_InvalidTickNeverRuns ==
    Elapsed > 0 =>
        /\ DAY_MINUTES % minutes_per_tick = 0
        /\ LandsOnMidnight(minutes_per_tick)

\* the bounded horizon: the end date is this many days after the start
HorizonDays == 2

(* C14: once sim_time has reached the configured end date, a tick leaves    *)
(* sim_time, energy_today, the live buffer and the history unchanged.       *)
C14_TicksPastTheEndAreNoOps ==
    [][sim_time.day >= boot.now1 + HorizonDays
           => UNCHANGED <<sim_time, energy_today, live_power, history_db>>]_vars

=============================================================================
